---- MODULE Spec2Model ----
(***************************************************************************)
(* Game Top-up API (main.py, schemas.py): the document store with its      *)
(* three collections, and the HTTP handlers.  A handler that makes several *)
(* store calls is one action per store call, so that requests interleave   *)
(* between the calls; under Spec a request is received only when no other  *)
(* is running, under SpecConc requests run concurrently.                   *)
(*                                                                         *)
(* Strings that are parsed as identifiers are sequences of one-character   *)
(* strings; an ObjectId is its 12 bytes.  Prices are kept in hundredths    *)
(* (1.59 is 159).  A Python None in an optional string field is "None".    *)
(***************************************************************************)
EXTENDS Integers, Sequences, FiniteSets, TLC

VARIABLES
    db,           \* the store handle of database.py: "handle" or "None"
    game,         \* collection "game", in insertion order
    topupoption,  \* collection "topupoption", in insertion order
    order,        \* collection "order", in insertion order
    nextOid,      \* the store's identifier generator
    resp,         \* the response sent by the step just taken (NoResp if none)
    procs,        \* the running handlers that have further store calls to make
    started       \* number of such handlers started under SpecConc

vars == <<db, game, topupoption, order, nextOid, resp, procs, started>>
store == <<game, topupoption, order>>

----------------------------------------------------------------------------
(* Bounds *)

MaxOrders == 2
MaxSeedLen == 2
MaxRequests == 2

----------------------------------------------------------------------------
(* bson.ObjectId: parsing and formatting *)

OidBytes == 12
HexDigits == <<"0", "1", "2", "3", "4", "5", "6", "7",
               "8", "9", "a", "b", "c", "d", "e", "f">>
UpperDigits == <<"A", "B", "C", "D", "E", "F">>

IsHexChar(c) ==
    \/ \E i \in 1..Len(HexDigits) : HexDigits[i] = c
    \/ \E i \in 1..Len(UpperDigits) : UpperDigits[i] = c

HexVal(c) ==
    IF \E i \in 1..Len(HexDigits) : HexDigits[i] = c
    THEN (CHOOSE i \in 1..Len(HexDigits) : HexDigits[i] = c) - 1
    ELSE (CHOOSE i \in 1..Len(UpperDigits) : UpperDigits[i] = c) + 9

\* the vertical tab, U+000B (the string holds that one character)
VerticalTab == ""

\* the ASCII whitespace bytes.fromhex skips between two-digit pairs: space,
\* \t, \n, \v, \f, \r
Whitespace == {" ", "\t", "\n", VerticalTab, "\f", "\r"}

RECURSIVE FromHex(_)
\* bytes.fromhex(s): whitespace is skipped before each pair, a pair is two
\* adjacent hex digits; anything else is a ValueError (ok = FALSE)
FromHex(s) ==
    IF s = <<>> THEN [ok |-> TRUE, bytes |-> <<>>]
    ELSE IF Head(s) \in Whitespace THEN FromHex(Tail(s))
    ELSE IF Len(s) >= 2 /\ IsHexChar(s[1]) /\ IsHexChar(s[2])
    THEN LET rest == FromHex(SubSeq(s, 3, Len(s))) IN
         [ok |-> rest.ok,
          bytes |-> <<16 * HexVal(s[1]) + HexVal(s[2])>> \o rest.bytes]
    ELSE [ok |-> FALSE, bytes |-> <<>>]

\* does ObjectId(s) succeed for a str: it has 24 characters and
\* bytes.fromhex accepts it (InvalidId otherwise)
IsValidOid(s) ==
    /\ Len(s) = 2 * OidBytes
    /\ FromHex(s).ok

\* ObjectId(s) for an accepted s: the bytes bytes.fromhex returns (12 for 24
\* hex digits, fewer when s holds whitespace)
ObjectId(s) == FromHex(s).bytes

RECURSIVE HexOfBytes(_)
HexOfBytes(bs) ==
    IF bs = <<>> THEN <<>>
    ELSE <<HexDigits[(Head(bs) \div 16) + 1], HexDigits[(Head(bs) % 16) + 1]>>
         \o HexOfBytes(Tail(bs))

\* str(oid): 24 lower-case hex characters
Str(oid) == HexOfBytes(oid)

RECURSIVE BytesOfNat(_, _)
BytesOfNat(n, len) ==
    IF len = 0 THEN <<>>
    ELSE Append(BytesOfNat(n \div 256, len - 1), n % 256)

\* the n-th identifier the store generates
GenOid(n) == BytesOfNat(n, OidBytes)

----------------------------------------------------------------------------
(* The document store (database.py and the driver) *)

NoDoc == <<>>

\* Python truthiness of a document: None and {} are falsy
Falsy(doc) == DOMAIN doc = {}

WithId(doc, oid) ==
    [k \in DOMAIN doc \cup {"_id"} |-> IF k = "_id" THEN oid ELSE doc[k]]

\* create_document(collection, data): insert, return the new id as a string
create_document(coll, n, data) ==
    [coll |-> Append(coll, WithId(data, GenOid(n))),
     next |-> n + 1,
     id   |-> Str(GenOid(n))]

\* does a document match a filter {key: value, ...} (equality on every key)
Matches(doc, filter) ==
    \A k \in DOMAIN filter : k \in DOMAIN doc /\ doc[k] = filter[k]

\* collection.find_one(filter): the first matching document, or None
find_one(coll, filter) ==
    IF \E i \in 1..Len(coll) : Matches(coll[i], filter)
    THEN coll[CHOOSE i \in 1..Len(coll) :
                  /\ Matches(coll[i], filter)
                  /\ \A j \in 1..(i - 1) : ~Matches(coll[j], filter)]
    ELSE NoDoc

\* collection.count_documents(filter)
count_documents(coll, filter) ==
    Cardinality({i \in 1..Len(coll) : Matches(coll[i], filter)})

RECURSIVE get_documents(_, _)
\* get_documents(collection, filter): all matching documents, in store order
get_documents(coll, filter) ==
    IF coll = <<>> THEN <<>>
    ELSE IF Matches(Head(coll), filter)
         THEN <<Head(coll)>> \o get_documents(Tail(coll), filter)
         ELSE get_documents(Tail(coll), filter)

----------------------------------------------------------------------------
(* main.py helpers *)

\* to_serializable(doc): "_id" replaced by "id" = str(_id)
to_serializable(doc) ==
    IF Falsy(doc) THEN doc
    ELSE [k \in (DOMAIN doc \ {"_id"}) \cup {"id"} |->
            IF k = "id" THEN Str(doc["_id"]) ELSE doc[k]]

\* dict.get(key, default)
Get(doc, key, default) == IF key \in DOMAIN doc THEN doc[key] ELSE default

\* the slice s[:n]
Take(s, n) == [i \in 1..(IF Len(s) < n THEN Len(s) ELSE n) |-> s[i]]

\* [to_serializable(d) for d in docs]
serialize_all(docs) == [i \in 1..Len(docs) |-> to_serializable(docs[i])]

\* the response of a handler that ended in an exception FastAPI does not map
Unhandled(op, req, exc, calls) ==
    [op |-> op, req |-> req, status |-> 500, detail |-> exc,
     body |-> NoDoc, calls |-> calls]

\* raise HTTPException(status_code, detail)
HTTPException(op, req, status, detail, calls) ==
    [op |-> op, req |-> req, status |-> status, detail |-> detail,
     body |-> NoDoc, calls |-> calls]

Ok(op, req, body, calls) ==
    [op |-> op, req |-> req, status |-> 200, detail |-> "",
     body |-> body, calls |-> calls]

----------------------------------------------------------------------------
(* Request inputs *)

IdStr(n) == Str(GenOid(n))

Upper(c) ==
    IF \E i \in 11..16 : HexDigits[i] = c
    THEN UpperDigits[(CHOOSE i \in 11..16 : HexDigits[i] = c) - 10]
    ELSE c

UpperStr(s) == [i \in 1..Len(s) |-> Upper(s[i])]

\* a well-formed identifier the store never generates within the bounds
NoSuchId == IdStr(200)

MalformedIds ==
    { <<"n", "o", "p", "e">>,
      [IdStr(4) EXCEPT ![24] = "g"] }

\* the separators of BlankedId: each whitespace character, in turn
Separators == <<" ", "\t", "\n", VerticalTab, "\f", "\r", " ", VerticalTab>>

\* 24 characters that ObjectId accepts although they are not 24 hex digits:
\* eight pairs "00", each followed by a whitespace character
BlankedId ==
    [i \in 1..(2 * OidBytes) |-> IF i % 3 = 0 THEN Separators[i \div 3] ELSE "0"]

OptionIdInputs ==
    {IdStr(4), UpperStr(IdStr(10)), NoSuchId, BlankedId} \cup MalformedIds

\* CreateOrder bodies that pass the schema validation
CreateOrderInputs ==
    { [game_id |-> IdStr(1), option_id |-> o, player_id |-> "p1",
       region |-> IF o = IdStr(4) THEN "asia" ELSE "None",
       payment_method |-> "card"] : o \in OptionIdInputs }

OrderIdInputs ==
    {IdStr(16), UpperStr(IdStr(11)), NoSuchId, BlankedId} \cup MalformedIds

GameIdInputs == {IdStr(1), <<"x">>}

GameCodeInputs == {"mlbb", "MLBB", "doesnotexist"}

SeedGame(name, code, image, publisher) ==
    [name |-> name, code |-> code, image |-> image, publisher |-> publisher]

default_games ==
    << SeedGame("Mobile Legends", "mlbb", "https://i.imgur.com/Kk2r6sG.png", "Moonton"),
       SeedGame("PUBG Mobile", "pubgm", "https://i.imgur.com/7nYVJr9.png", "Tencent"),
       SeedGame("Free Fire", "ff", "https://i.imgur.com/4J2hX3E.png", "Garena") >>

SeedGameInputs ==
    { SeedGame("ML Bang Bang", "mlbb", "None", "None"),
      SeedGame("Genshin Impact", "gi", "None", "miHoYo") }

SeqsUpTo(S, n) == UNION { [1..k -> S] : k \in 0..n }

\* the optional request body of POST /api/seed: absent, or a list
NoBody == [present |-> FALSE, list |-> <<>>]

SeedBodies ==
    {NoBody} \cup { [present |-> TRUE, list |-> l] : l \in SeqsUpTo(SeedGameInputs, MaxSeedLen) }

presets ==
    << [title |-> "86 Diamonds",  amount |-> 159, credits |-> 86],
       [title |-> "172 Diamonds", amount |-> 309, credits |-> 172],
       [title |-> "257 Diamonds", amount |-> 459, credits |-> 257],
       [title |-> "500 Diamonds", amount |-> 899, credits |-> 500] >>

----------------------------------------------------------------------------
(* Handlers with at most one store call *)

NoResp == [op |-> "none", req |-> NoDoc, status |-> 0, detail |-> "",
           body |-> NoDoc, calls |-> 0]

\* the names of the collections that exist (a collection exists once a
\* document was inserted into it)
ExistingCollections ==
    {c \in {"game", "topupoption", "order"} :
        \/ c = "game" /\ game # <<>>
        \/ c = "topupoption" /\ topupoption # <<>>
        \/ c = "order" /\ order # <<>>}

\* names of collections other parts of the database may hold
OtherCollections == <<"c1", "c2", "c3", "c4", "c5", "c6", "c7", "c8", "c9">>

\* what db.list_collection_names() may return: the existing collections in
\* any order, or after the other collections of the database when it has
\* some (the listing is then longer than ten names)
Listings ==
    LET n == Cardinality(ExistingCollections)
        orders == {f \in [1..n -> ExistingCollections] :
                      \A i, j \in 1..n : (i # j) => f[i] # f[j]}
        IsExisting(c) == c \in ExistingCollections
    IN orders \cup {OtherCollections \o SelectSeq(<<"game", "topupoption", "order">>,
                                                  IsExisting)}

\* the texts str(e) of the exceptions the store may raise
ErrorTexts == { <<"d", "o", "w", "n">>, [i \in 1..60 |-> "x"] }

\* GET /test: whether DATABASE_URL is set, whether the handle has a name,
\* and how the calls on the handle end
TestInputs ==
    { [url |-> TRUE, name |-> TRUE,
       outcome |-> [kind |-> "names", names |-> l, text |-> <<>>]] : l \in Listings }
    \cup { [url |-> b, name |-> ~b,
             outcome |-> [kind |-> "names", names |-> <<>>, text |-> <<>>]] :
             b \in BOOLEAN }
    \cup { [url |-> TRUE, name |-> TRUE,
             outcome |-> [kind |-> k, names |-> <<>>, text |-> e]] :
             k \in {"list_raises", "raises"}, e \in ErrorTexts }

\* GET /test: the response dict
test_database_response(urlSet, hasName, outcome) ==
    LET initial == [backend |-> "Running",
                    database |-> <<"Not Available">>,
                    database_url |-> "None",
                    database_name |-> "None",
                    connection_status |-> "Not Connected",
                    collections |-> <<>>]
        url == IF urlSet THEN "Set" ELSE "Not Set"
        connected == [initial EXCEPT
                        !.database = <<"Available">>,
                        !.database_url = url,
                        !.database_name = IF hasName THEN "name" ELSE "Connected",
                        !.connection_status = "Connected"]
    IN IF db = "None" THEN initial
       ELSE IF outcome.kind = "raises"
       THEN [initial EXCEPT !.database = <<"Error", Take(outcome.text, 50)>>,
                            !.database_url = url]
       ELSE IF outcome.kind = "list_raises"
       THEN [connected EXCEPT
                !.database = <<"Connected but Error", Take(outcome.text, 50)>>]
       ELSE [connected EXCEPT !.database = <<"Connected & Working">>,
                              !.collections = Take(outcome.names, 10)]

\* get_game_by_code filtering on the name field
get_game_by_code_response_by_name(game_code) ==
    IF db = "None" THEN Unhandled("get_game_by_code", game_code, "TypeError", 0)
    ELSE LET doc == find_one(game, [name |-> game_code]) IN
         IF Falsy(doc)
         THEN HTTPException("get_game_by_code", game_code, 404, "Game not found", 1)
         ELSE Ok("get_game_by_code", game_code, to_serializable(doc), 1)

\* GET /api/games/{game_code}
get_game_by_code_response(game_code) ==
    IF db = "None" THEN Unhandled("get_game_by_code", game_code, "TypeError", 0)
    ELSE LET doc == find_one(game, [code |-> game_code]) IN
         IF Falsy(doc)
         THEN HTTPException("get_game_by_code", game_code, 404, "Game not found", 1)
         ELSE Ok("get_game_by_code", game_code, to_serializable(doc), 1)

\* GET /api/orders/{order_id}: every exception raised in the try block,
\* the HTTPException(404) included, is caught and replaced by the 400
get_order_response(order_id) ==
    LET invalid(calls) ==
            HTTPException("get_order", order_id, 400, "Invalid order id", calls)
    IN IF db = "None" THEN invalid(0)
       ELSE IF ~IsValidOid(order_id) THEN invalid(0)
       ELSE LET doc == find_one(order, [_id |-> ObjectId(order_id)]) IN
            IF Falsy(doc) THEN invalid(1)
            ELSE Ok("get_order", order_id, to_serializable(doc), 1)

\* GET /api/games
list_games_response ==
    IF db = "None" THEN Unhandled("list_games", NoDoc, "Exception", 0)
    ELSE Ok("list_games", NoDoc, serialize_all(get_documents(game, NoDoc)), 1)

\* GET /api/games/{game_id}/options
list_options_response(game_id) ==
    IF db = "None" THEN Unhandled("list_options", game_id, "Exception", 0)
    ELSE Ok("list_options", game_id,
            serialize_all(get_documents(topupoption, [game_id |-> game_id])), 1)

----------------------------------------------------------------------------
(* Scheduling of requests *)

Procs == {1, 2}

IdleProc == [pc |-> "idle"]

AllIdle == \A q \in Procs : procs[q].pc = "idle"

\* under Spec a request is received when no handler is running; under
\* SpecConc at any time, MaxRequests requests in all
MayAnswer(conc) == IF conc THEN started < MaxRequests ELSE AllIdle

\* a request with further store calls takes the first free slot
MayBegin(p, conc) ==
    /\ procs[p].pc = "idle"
    /\ \A q \in Procs : (q < p) => procs[q].pc # "idle"
    /\ MayAnswer(conc)

Begun(conc) == IF conc THEN started + 1 ELSE started

Init ==
    /\ db \in {"handle", "None"}
    /\ game = <<>>
    /\ topupoption = <<>>
    /\ order = <<>>
    /\ nextOid = 1
    /\ resp = NoResp
    /\ procs = [p \in Procs |-> IdleProc]
    /\ started = 0

root(conc) ==
    /\ MayAnswer(conc)
    /\ resp' = Ok("root", NoDoc, [message |-> "Game Top-up API is running"], 0)
    /\ started' = Begun(conc)
    /\ UNCHANGED <<db, game, topupoption, order, nextOid, procs>>

test_database(conc) ==
    \E in \in TestInputs :
        /\ MayAnswer(conc)
        /\ resp' = Ok("test_database", in,
                      test_database_response(in.url, in.name, in.outcome),
                      IF db # "None" /\ in.outcome.kind # "raises" THEN 1 ELSE 0)
        /\ started' = Begun(conc)
        /\ UNCHANGED <<db, game, topupoption, order, nextOid, procs>>

list_games(conc) ==
    /\ MayAnswer(conc)
    /\ resp' = list_games_response
    /\ started' = Begun(conc)
    /\ UNCHANGED <<db, game, topupoption, order, nextOid, procs>>

get_game_by_code(conc) ==
    \E game_code \in GameCodeInputs :
        /\ MayAnswer(conc)
        /\ resp' = get_game_by_code_response(game_code)
        /\ started' = Begun(conc)
        /\ UNCHANGED <<db, game, topupoption, order, nextOid, procs>>

list_options(conc) ==
    \E game_id \in GameIdInputs :
        /\ MayAnswer(conc)
        /\ resp' = list_options_response(game_id)
        /\ started' = Begun(conc)
        /\ UNCHANGED <<db, game, topupoption, order, nextOid, procs>>

get_order(conc) ==
    \E order_id \in OrderIdInputs :
        /\ MayAnswer(conc)
        /\ resp' = get_order_response(order_id)
        /\ started' = Begun(conc)
        /\ UNCHANGED <<db, game, topupoption, order, nextOid, procs>>

----------------------------------------------------------------------------
(* POST /api/orders: find_one, create_document, find_one *)

\* order_doc reading the price under a key the option does not have
order_doc_wrong_key(payload, option) ==
    [game_id |-> payload.game_id,
     option_id |-> payload.option_id,
     player_id |-> payload.player_id,
     region |-> payload.region,
     payment_method |-> payload.payment_method,
     status |-> "pending",
     amount |-> Get(option, "price", 0),
     credits |-> Get(option, "credits", 0)]

\* the order document built from the request and the option found
order_doc(payload, option) ==
    [game_id |-> payload.game_id,
     option_id |-> payload.option_id,
     player_id |-> payload.player_id,
     region |-> payload.region,
     payment_method |-> payload.payment_method,
     status |-> "pending",
     amount |-> Get(option, "amount", 0),
     credits |-> Get(option, "credits", 0)]

\* a handler that never takes the "if not option" branch
option_missing_ignored(option) == FALSE

\* "if not option"
option_missing(option) == Falsy(option)

\* the handler up to and including its first store call: the response if it
\* ends there (NoResp if it goes on), and the option found
create_order_lookup(payload) ==
    IF db = "None"
    THEN [resp |-> Unhandled("create_order", payload, "TypeError", 0), option |-> NoDoc]
    ELSE IF ~IsValidOid(payload.option_id)
    THEN [resp |-> Unhandled("create_order", payload, "InvalidId", 0), option |-> NoDoc]
    ELSE LET option == find_one(topupoption, [_id |-> ObjectId(payload.option_id)]) IN
         IF option_missing(option)
         THEN [resp |-> HTTPException("create_order", payload, 404,
                                      "Top-up option not found", 1),
               option |-> NoDoc]
         ELSE [resp |-> NoResp, option |-> option]

\* orders accepted and not yet inserted
OrdersToInsert == Cardinality({q \in Procs : procs[q].pc = "order_insert"})

\* the request ends at line 124 or 126
create_order_rejected(conc) ==
    \E payload \in CreateOrderInputs :
        LET r == create_order_lookup(payload) IN
        /\ MayAnswer(conc)
        /\ r.resp # NoResp
        /\ resp' = r.resp
        /\ started' = Begun(conc)
        /\ UNCHANGED <<db, game, topupoption, order, nextOid, procs>>

\* option = db["topupoption"].find_one(...) found the option
create_order_found(p, conc) ==
    \E payload \in CreateOrderInputs :
        LET r == create_order_lookup(payload) IN
        /\ MayBegin(p, conc)
        /\ r.resp = NoResp
        /\ Len(order) + OrdersToInsert < MaxOrders
        /\ procs' = [procs EXCEPT ![p] =
                        [pc |-> "order_insert", req |-> payload,
                         option |-> r.option, id |-> <<>>, calls |-> 1]]
        /\ started' = Begun(conc)
        /\ resp' = NoResp
        /\ UNCHANGED <<db, game, topupoption, order, nextOid>>

\* order_id = create_document("order", order_doc)
create_order_insert(p) ==
    LET me == procs[p]
        ins == create_document(order, nextOid, order_doc(me.req, me.option))
    IN /\ me.pc = "order_insert"
       /\ order' = ins.coll
       /\ nextOid' = ins.next
       /\ procs' = [procs EXCEPT ![p] =
                       [me EXCEPT !.id = ins.id, !.calls = @ + 1, !.pc = "order_refetch"]]
       /\ resp' = NoResp
       /\ UNCHANGED <<db, game, topupoption, started>>

\* created = db["order"].find_one({"_id": ObjectId(order_id)}); return
create_order_refetch(p) ==
    LET me == procs[p]
        created == find_one(order, [_id |-> ObjectId(me.id)])
    IN /\ me.pc = "order_refetch"
       /\ resp' = Ok("create_order", me.req, to_serializable(created), me.calls + 1)
       /\ procs' = [procs EXCEPT ![p] = IdleProc]
       /\ UNCHANGED <<db, game, topupoption, order, nextOid, started>>

----------------------------------------------------------------------------
(* POST /api/seed *)

\* games or [the three defaults]: None and the empty list give the defaults
games_or_default(games) ==
    IF games.present /\ games.list # <<>> THEN games.list ELSE default_games

\* {"game_id": game["id"], **p}
option_doc(gm, p) ==
    [game_id |-> gm.id, title |-> p.title, amount |-> p.amount, credits |-> p.credits]

\* where the handler goes after finishing iteration i of the first loop
after_game(i, gs) == IF i + 1 > Len(gs) THEN "count" ELSE "find"

\* where it goes after finishing iteration j of the second loop
after_options(j, created) == IF j + 1 > Len(created) THEN "respond" ELSE "count"

\* the bodies of the requests that run concurrently: one game each, the
\* code "mlbb" under two names
ConcSeedBodies ==
    { [present |-> TRUE, list |-> <<g>>] :
        g \in {SeedGame("ML Bang Bang", "mlbb", "None", "None"), default_games[1]} }

BodiesFor(conc) == IF conc THEN ConcSeedBodies ELSE SeedBodies

\* with db None the first db["game"] raises TypeError
seed_data_crash(conc) ==
    \E games \in BodiesFor(conc) :
        /\ MayAnswer(conc)
        /\ db = "None"
        /\ resp' = Unhandled("seed_data", games, "TypeError", 0)
        /\ started' = Begun(conc)
        /\ UNCHANGED <<db, game, topupoption, order, nextOid, procs>>

\* the request is received: default_games, created_games = [].  Under Spec
\* "before" and "again" record the collections at that moment and whether
\* the request answered just before was a seed with the same body
seed_data_begin(p, conc) ==
    \E games \in BodiesFor(conc) :
        /\ MayBegin(p, conc)
        /\ db # "None"
        /\ started' = Begun(conc)
        /\ procs' = [procs EXCEPT ![p] =
                        [pc |-> "find", req |-> games, gs |-> games_or_default(games),
                         i |-> 1, j |-> 1, k |-> 1, id |-> <<>>,
                         created |-> <<>>, calls |-> 0,
                         before |-> IF conc THEN NoDoc
                                    ELSE [game |-> game, topupoption |-> topupoption],
                         again |-> /\ ~conc
                                   /\ resp.op = "seed_data"
                                   /\ resp.status = 200
                                   /\ resp.req = games]]
        /\ resp' = NoResp
        /\ UNCHANGED <<db, game, topupoption, order, nextOid>>

\* a handler that never takes the "if existing" branch
is_existing_ignored(existing) == FALSE

\* "if existing"
is_existing(existing) == ~Falsy(existing)

\* the lookup overwriting the Game it finds with the request's (an upsert)
seed_data_lookup_upsert(me) ==
    LET existing == find_one(game, [code |-> me.gs[me.i].code]) IN
    IF is_existing(existing)
    THEN LET updated == WithId(me.gs[me.i], existing["_id"]) IN
         [game |-> [n \in 1..Len(game) |->
                       IF game[n]["_id"] = existing["_id"] THEN updated ELSE game[n]],
          me |-> [me EXCEPT !.created = Append(@, to_serializable(updated)),
                            !.calls = @ + 1,
                            !.i = @ + 1,
                            !.pc = after_game(me.i, me.gs)]]
    ELSE [game |-> game, me |-> [me EXCEPT !.calls = @ + 1, !.pc = "insert"]]

\* existing = db["game"].find_one({"code": g.code}); if existing: append,
\* continue.  The collection is left as it is
seed_data_lookup(me) ==
    LET existing == find_one(game, [code |-> me.gs[me.i].code]) IN
    [game |-> game,
     me |-> IF is_existing(existing)
            THEN [me EXCEPT !.created = Append(@, to_serializable(existing)),
                            !.calls = @ + 1,
                            !.i = @ + 1,
                            !.pc = after_game(me.i, me.gs)]
            ELSE [me EXCEPT !.calls = @ + 1, !.pc = "insert"]]

seed_data_find(p) ==
    LET r == seed_data_lookup(procs[p]) IN
    /\ procs[p].pc = "find"
    /\ game' = r.game
    /\ procs' = [procs EXCEPT ![p] = r.me]
    /\ resp' = NoResp
    /\ UNCHANGED <<db, topupoption, order, nextOid, started>>

\* inserted_id = create_document("game", g.model_dump())
seed_data_insert(p) ==
    LET me == procs[p]
        ins == create_document(game, nextOid, me.gs[me.i])
    IN /\ me.pc = "insert"
       /\ game' = ins.coll
       /\ nextOid' = ins.next
       /\ procs' = [procs EXCEPT ![p] =
                       [me EXCEPT !.id = ins.id, !.calls = @ + 1, !.pc = "refetch"]]
       /\ resp' = NoResp
       /\ UNCHANGED <<db, topupoption, order, started>>

\* created = db["game"].find_one({"_id": ObjectId(inserted_id)}); append
seed_data_refetch(p) ==
    LET me == procs[p]
        created == find_one(game, [_id |-> ObjectId(me.id)])
    IN /\ me.pc = "refetch"
       /\ procs' = [procs EXCEPT ![p] =
                       [me EXCEPT !.created = Append(@, to_serializable(created)),
                                  !.calls = @ + 1,
                                  !.i = @ + 1,
                                  !.pc = after_game(me.i, me.gs)]]
       /\ resp' = NoResp
       /\ UNCHANGED <<db, game, topupoption, order, nextOid, started>>

\* lacks_options without the count
lacks_options_unchecked(coll, gm) == TRUE

\* db["topupoption"].count_documents({"game_id": game["id"]}) == 0
lacks_options(coll, gm) ==
    count_documents(coll, [game_id |-> gm.id]) = 0

seed_data_count(p) ==
    LET me == procs[p] IN
    /\ me.pc = "count"
    /\ procs' = [procs EXCEPT ![p] =
                    IF lacks_options(topupoption, me.created[me.j])
                    THEN [me EXCEPT !.calls = @ + 1, !.k = 1, !.pc = "preset"]
                    ELSE [me EXCEPT !.calls = @ + 1,
                                    !.j = @ + 1,
                                    !.pc = after_options(me.j, me.created)]]
    /\ resp' = NoResp
    /\ UNCHANGED <<db, game, topupoption, order, nextOid, started>>

\* create_document("topupoption", {"game_id": game["id"], **p})
seed_data_preset(p) ==
    LET me == procs[p]
        ins == create_document(topupoption, nextOid,
                               option_doc(me.created[me.j], presets[me.k]))
    IN /\ me.pc = "preset"
       /\ topupoption' = ins.coll
       /\ nextOid' = ins.next
       /\ procs' = [procs EXCEPT ![p] =
                       IF me.k < Len(presets)
                       THEN [me EXCEPT !.calls = @ + 1, !.k = @ + 1]
                       ELSE [me EXCEPT !.calls = @ + 1,
                                       !.j = @ + 1,
                                       !.pc = after_options(me.j, me.created)]]
       /\ resp' = NoResp
       /\ UNCHANGED <<db, game, order, started>>

\* return {"games": created_games}
seed_data_respond(p) ==
    LET me == procs[p] IN
    /\ me.pc = "respond"
    /\ resp' = [op |-> "seed_data", req |-> me.req, status |-> 200, detail |-> "",
                body |-> [games |-> me.created], calls |-> me.calls,
                before |-> me.before, again |-> me.again]
    /\ procs' = [procs EXCEPT ![p] = IdleProc]
    /\ UNCHANGED <<db, game, topupoption, order, nextOid, started>>

----------------------------------------------------------------------------
(* Specifications *)

\* requests handled one after another
Next ==
    \/ root(FALSE)
    \/ test_database(FALSE)
    \/ list_games(FALSE)
    \/ get_game_by_code(FALSE)
    \/ list_options(FALSE)
    \/ get_order(FALSE)
    \/ create_order_rejected(FALSE)
    \/ seed_data_crash(FALSE)
    \/ \E p \in Procs :
        \/ create_order_found(p, FALSE)
        \/ create_order_insert(p)
        \/ create_order_refetch(p)
        \/ seed_data_begin(p, FALSE)
        \/ seed_data_find(p)
        \/ seed_data_insert(p)
        \/ seed_data_refetch(p)
        \/ seed_data_count(p)
        \/ seed_data_preset(p)
        \/ seed_data_respond(p)

Spec == Init /\ [][Next]_vars

InitConc == Init /\ db = "handle"

\* requests running concurrently, their store calls interleaved
NextConc ==
    \/ root(TRUE)
    \/ test_database(TRUE)
    \/ list_games(TRUE)
    \/ get_game_by_code(TRUE)
    \/ list_options(TRUE)
    \/ get_order(TRUE)
    \/ create_order_rejected(TRUE)
    \/ \E p \in Procs :
        \/ create_order_found(p, TRUE)
        \/ create_order_insert(p)
        \/ create_order_refetch(p)
        \/ seed_data_begin(p, TRUE)
        \/ seed_data_find(p)
        \/ seed_data_insert(p)
        \/ seed_data_refetch(p)
        \/ seed_data_count(p)
        \/ seed_data_preset(p)
        \/ seed_data_respond(p)

SpecConc == InitConc /\ [][NextConc]_vars

----------------------------------------------------------------------------
(* Properties *)

Range(q) == { q[i] : i \in 1..Len(q) }

OptionsOf(coll, gid) == { d \in Range(coll) : d.game_id = gid }

GamesWithCode(coll, code) == { i \in 1..Len(coll) : coll[i].code = code }

OrdersWithId(s) == { d \in Range(order) : d["_id"] = ObjectId(s) }

OptionsWithId(s) == { d \in Range(topupoption) : d["_id"] = ObjectId(s) }

\* the identifier shape: 24 hexadecimal digits
WellFormed(s) == Len(s) = 2 * OidBytes /\ \A i \in 1..Len(s) : IsHexChar(s[i])

\* C1: every stored Order has status "pending", and its amount and credits
\* are those of the TopupOption its option_id parses to; the response to a
\* successful POST /api/orders shows the same
C1_OrderCopiesOption ==
    /\ \A o \in Range(order) :
          /\ o.status = "pending"
          /\ IsValidOid(o.option_id)
          /\ \E t \in OptionsWithId(o.option_id) :
                o.amount = t.amount /\ o.credits = t.credits
    /\ (resp.op = "create_order" /\ resp.status = 200) =>
          /\ resp.body.status = "pending"
          /\ \E t \in OptionsWithId(resp.req.option_id) :
                resp.body.amount = t.amount /\ resp.body.credits = t.credits

\* an order for the 257-diamond option, answered while the seed request that
\* creates the options is still inserting them
C1_Witness ==
    /\ resp.op = "create_order" /\ resp.status = 200
    /\ resp.body.credits = 257 /\ resp.body.amount = 459
    /\ Len(order) = 1 /\ order[1].option_id = IdStr(4)
    /\ \E q \in Procs : procs[q].pc = "preset"

\* C2: GET /api/orders/{id} answers 400 for a malformed id, 404 for a
\* well-formed id of no Order, and the Order for the id of a stored Order
C2_GetOrderStatuses ==
    (resp.op = "get_order" /\ db = "handle") =>
        IF ~WellFormed(resp.req) THEN resp.status = 400
        ELSE IF OrdersWithId(resp.req) = {} THEN resp.status = 404
        ELSE /\ resp.status = 200
             /\ \E d \in OrdersWithId(resp.req) : resp.body = to_serializable(d)

\* C3: a malformed identifier is answered 400 without any store call, in
\* POST /api/orders (option_id) and in GET /api/orders/{id} (id)
C3_MalformedIs400 ==
    /\ (resp.op = "create_order" /\ db = "handle" /\ ~WellFormed(resp.req.option_id)) =>
          (resp.status = 400 /\ resp.calls = 0)
    /\ (resp.op = "get_order" /\ db = "handle" /\ ~WellFormed(resp.req)) =>
          (resp.status = 400 /\ resp.calls = 0)

\* C4: POST /api/orders with a well-formed option_id of no TopupOption is
\* answered 404, and the step that answers leaves the three collections as
\* they were
C4_UnknownOptionStep ==
    (/\ resp'.op = "create_order"
     /\ db = "handle"
     /\ WellFormed(resp'.req.option_id)
     /\ OptionsWithId(resp'.req.option_id) = {})
    => (resp'.status = 404 /\ UNCHANGED store)

C4_UnknownOptionCreatesNothing == [][C4_UnknownOptionStep]_vars

\* a 404 while another request's seed is inserting options
C4_Witness ==
    /\ resp.op = "create_order"
    /\ resp.req.option_id = NoSuchId
    /\ resp.status = 404
    /\ topupoption # <<>>
    /\ \E q \in Procs : procs[q].pc = "preset"

\* C5: after a POST /api/seed run on its own, each code of the request names
\* exactly one Game, also when the list repeats the code or the code was
\* seeded before; a seed request repeated right after itself leaves the
\* game and topupoption collections as they were
C5_SeedIdempotent ==
    (resp.op = "seed_data" /\ resp.status = 200) =>
        /\ \A i \in 1..Len(games_or_default(resp.req)) :
              Cardinality(GamesWithCode(game, games_or_default(resp.req)[i].code)) = 1
        /\ resp.again =>
              /\ game = resp.before.game
              /\ topupoption = resp.before.topupoption

\* a repeated request whose list repeats the code "mlbb", answered when the
\* Game stored under that code came from an earlier request
C5_Witness ==
    /\ resp.op = "seed_data" /\ resp.status = 200
    /\ resp.again
    /\ Len(resp.req.list) = 2
    /\ resp.req.list[1].code = "mlbb" /\ resp.req.list[2].code = "mlbb"
    /\ \E i \in 1..Len(game) : game[i].code = "mlbb" /\ game[i].name = "Mobile Legends"

PresetDocs(gid) == { option_doc([id |-> gid], presets[k]) : k \in 1..Len(presets) }

WithoutId(d) == [k \in DOMAIN d \ {"_id"} |-> d[k]]

\* C6: a POST /api/seed run on its own leaves every game of its response
\* with at least one TopupOption: exactly the four presets when it had none
\* before the request, and what it had when it had some; on an empty store
\* the request without a body yields mlbb, pubgm, ff with four options each
C6_SeedOptions ==
    (resp.op = "seed_data" /\ resp.status = 200) =>
        /\ \A i \in 1..Len(resp.body.games) :
              LET gid == resp.body.games[i].id
                  before == OptionsOf(resp.before.topupoption, gid)
                  after == OptionsOf(topupoption, gid)
              IN /\ after # {}
                 /\ (before = {}) =>
                       /\ Cardinality(after) = 4
                       /\ { WithoutId(d) : d \in after } = PresetDocs(gid)
                 /\ (before # {}) => after = before
        /\ (resp.before.game = <<>> /\ resp.req = NoBody) =>
              /\ Len(resp.body.games) = 3
              /\ resp.body.games[1].code = "mlbb"
              /\ resp.body.games[2].code = "pubgm"
              /\ resp.body.games[3].code = "ff"
              /\ Len(topupoption) = 12
              /\ \A i \in 1..3 :
                    Cardinality(OptionsOf(topupoption, resp.body.games[i].id)) = 4

\* a request that found "mlbb" with its options and created "gi" with none
C6_Witness ==
    /\ resp.op = "seed_data" /\ resp.status = 200
    /\ Len(resp.body.games) = 2
    /\ resp.body.games[1].code = "mlbb" /\ resp.body.games[1].name = "Mobile Legends"
    /\ resp.body.games[2].code = "gi"
    /\ Len(resp.before.game) = 3
    /\ Len(game) = 4
    /\ Len(topupoption) = 16

\* C7: GET /api/games/{code} returns a stored Game whose code is the path
\* value when there is one, answers 404 exactly when there is none, and
\* leaves the store as it was
C7_GameByCodeAnswer ==
    (resp.op = "get_game_by_code" /\ db = "handle") =>
        /\ (GamesWithCode(game, resp.req) # {}) =>
              /\ resp.status = 200
              /\ resp.body.code = resp.req
              /\ \E i \in GamesWithCode(game, resp.req) :
                    resp.body = to_serializable(game[i])
        /\ (resp.status = 404) <=> (GamesWithCode(game, resp.req) = {})

C7_GameByCodeStep ==
    (resp'.op = "get_game_by_code") =>
        (UNCHANGED store /\ C7_GameByCodeAnswer')

C7_GameByCode == [][C7_GameByCodeStep]_vars

\* the Game is returned between its insertion and the seed handler's own
\* re-read of it
C7_Witness ==
    /\ resp.op = "get_game_by_code" /\ resp.req = "mlbb" /\ resp.status = 200
    /\ \E q \in Procs : procs[q].pc = "refetch" /\ procs[q].gs[1].code = "mlbb"

\* C8: with the store handle None, no data-dependent endpoint ends in an
\* unhandled failure, and GET /test answers normally
C8_NoCrashWithoutStore ==
    /\ (db = "None" /\ resp.op \in {"get_game_by_code", "create_order",
                                    "get_order", "seed_data"}) =>
          resp.status # 500
    /\ (resp.op = "test_database") => resp.status = 200

IsPrefix(a, b) == Len(a) <= Len(b) /\ \A i \in 1..Len(a) : b[i] = a[i]

\* C9: every step keeps each stored record where it is, with every field
\* as it was; the collections only grow
C9_RecordsKeptStep ==
    /\ IsPrefix(game, game')
    /\ IsPrefix(topupoption, topupoption')
    /\ IsPrefix(order, order')

C9_RecordsKept == [][C9_RecordsKeptStep]_vars

\* a seed for a code already stored under another name has looked the Game
\* up, with options stored
C9_Witness ==
    /\ \E q \in Procs :
          /\ procs[q].pc = "count"
          /\ procs[q].gs[1].name = "ML Bang Bang"
          /\ procs[q].created[1].name = "Mobile Legends"
    /\ Len(topupoption) = 4

\* C10: under interleaved seed requests no two Games share a code and no
\* game identifier has more than four TopupOptions
C10_NoDuplicatesUnderRace ==
    /\ \A i, j \in 1..Len(game) : (i # j) => game[i].code # game[j].code
    /\ \A i \in 1..Len(game) :
          Cardinality({ k \in 1..Len(topupoption) :
                          topupoption[k].game_id = Str(game[i]["_id"]) }) <= 4

====
